---- MODULE Spec2Model ----
(***************************************************************************)
(* A model of src/plugins/import-aliases.js: the JSDoc plugin that         *)
(* collects import aliases per file (beforeParse), indexes declarations    *)
(* and assignments (newDoclet), and at processingComplete derives every    *)
(* file's export table, resolves the aliases and rewrites the type names   *)
(* of the doclets.                                                         *)
(*                                                                         *)
(* A JavaScript string is modelled as the sequence of its tokens: an       *)
(* identifier (a run of \w characters) is one token, and ".", ".<", ">"    *)
(* and "," are tokens of their own.  "pkg.Widget" is <<"pkg",".","Widget">>*)
(* and "Array.<Foo>" is <<"Array",".<","Foo",">">>.  White space is not    *)
(* modelled (the code trims it around names).  startsWith, slice, split    *)
(* and join then are sequence operations, and the regular expression of    *)
(* replaceTypes is matched on the tokens as the engine matches it on the   *)
(* characters: leftmost start, greedy run.                                 *)
(***************************************************************************)
EXTENDS Naturals, Sequences, FiniteSets, TLC

VARIABLES
  fileinfoByFile,  \* the registry: the FileInfo records in insertion order
  doclets,         \* the doclets the host has produced, as delivered
  source,          \* e.source as beforeParse left it for the parser
  parsed,          \* the files beforeParse has been called for
  phase,           \* "parsing", then "complete" or "error"
  before,          \* history: the registry as processingComplete found it
  rewritten        \* e.doclets after processingComplete rewrote them in place

vars == <<fileinfoByFile, doclets, source, parsed, phase, before, rewritten>>

(***************************************************************************)
(* Strings                                                                 *)
(***************************************************************************)
Dot == "."
Open == ".<"
Close == ">"
Comma == ","

\* a + "." + b
Dotted(a, b) == a \o <<Dot>> \o b

\* key.startsWith(prefix)
StartsWith(key, prefix) ==
  /\ Len(prefix) <= Len(key)
  /\ SubSeq(key, 1, Len(prefix)) = prefix

\* s.slice(n)
Slice(s, n) == SubSeq(s, n + 1, Len(s))

\* file.endsWith('.js')
EndsWithJs(file) == Len(file) > 0 /\ file[Len(file)] = ".js"

withExt(file) == IF EndsWithJs(file) THEN file ELSE file \o <<".js">>

\* path.resolve(dir, p): every file of the model lives in one directory, so
\* the leading "./" of a module path is all that resolution removes.
Resolve(p) == IF Len(p) > 0 /\ p[1] = "./" THEN Tail(p) ELSE p

(***************************************************************************)
(* Maps.  A JavaScript Map whose iteration order the code depends on       *)
(* (mappings, the registry) is a sequence of entries in insertion order;   *)
(* the others are functions.                                               *)
(***************************************************************************)
EmptyMap == [k \in {} |-> k]

MapSet(m, k, v) == [x \in (DOMAIN m) \cup {k} |-> IF x = k THEN v ELSE m[x]]

Has(m, k) == k \in DOMAIN m

\* index of key k in an ordered map, 0 when absent
OIndex(om, k) ==
  IF \E i \in 1..Len(om) : om[i].key = k
  THEN CHOOSE i \in 1..Len(om) : om[i].key = k
  ELSE 0

\* Map.prototype.set: a present key keeps its place, a new key goes last
OSet(om, k, v) ==
  IF OIndex(om, k) = 0
  THEN Append(om, [key |-> k, value |-> v])
  ELSE [om EXCEPT ![OIndex(om, k)].value = v]

(***************************************************************************)
(* FileInfo and the registry                                               *)
(***************************************************************************)
FileInfo(filename) ==
  [filename |-> filename,
   localImportAliases |-> EmptyMap,
   longnamesByDeclaration |-> EmptyMap,
   mappings |-> <<>>,
   exports |-> EmptyMap]

\* The three values a slot of localImportAliases takes: the request
\* [file, exported], the resolved longname, and null.
Request(file, exported) ==
  [kind |-> "request", file |-> file, exported |-> exported, longname |-> <<>>]
Resolved(longname) ==
  [kind |-> "longname", file |-> <<>>, exported |-> <<>>, longname |-> longname]
Null == [kind |-> "null", file |-> <<>>, exported |-> <<>>, longname |-> <<>>]

\* fileinfoByFile.get(filename): the record's place in the registry, 0 for
\* undefined
Lookup(reg, filename) ==
  IF \E i \in 1..Len(reg) : reg[i].filename = filename
  THEN CHOOSE i \in 1..Len(reg) : reg[i].filename = filename
  ELSE 0

\* fileinfoByFile.set(filename, fileinfo): a Map holds one value per key
RegSet(reg, filename, fileinfo) ==
  IF Lookup(reg, filename) = 0
  THEN Append(reg, fileinfo)
  ELSE [reg EXCEPT ![Lookup(reg, filename)] = fileinfo]

\* A mutant of getFileInfo: a new record whether or not the path has one.
GetFileInfoAlwaysNew(reg, filename, getNew) ==
  IF ~getNew THEN reg ELSE RegSet(reg, filename, FileInfo(filename))

\* The registry after getFileInfo(filename, getNew); the record it returns
\* is the one at Lookup(registry after, filename).
GetFileInfo(reg, filename, getNew) ==
  IF ~getNew THEN reg
  ELSE IF Lookup(reg, filename) # 0 THEN reg
  ELSE RegSet(reg, filename, FileInfo(filename))

\* fileinfo.localImportAliases.set(localAlias, [file, exported]) on the
\* record of filename
SetAlias(reg, filename, localAlias, file, exported) ==
  LET i == Lookup(reg, filename)
  IN [reg EXCEPT ![i].localImportAliases =
        MapSet(@, localAlias, Request(file, exported))]

(***************************************************************************)
(* beforeParse.  e.source is modelled by what the three regular            *)
(* expressions find in it: source.typedefs, source.simples and             *)
(* source.destructs are the matches in order, each with its groups.        *)
(***************************************************************************)
RECURSIVE TypedefLoop(_, _, _)
TypedefLoop(reg, filename, matches) ==
  IF matches = <<>> THEN reg
  ELSE LET matched == Head(matches)
           file == withExt(Resolve(matched.path))
           exported == Slice(matched.exported, 1)
           localAlias == matched.alias
       IN TypedefLoop(SetAlias(reg, filename, localAlias, file, exported),
                      filename, Tail(matches))

typedefImportAliases(reg, e) ==
  IF e.source.typedefs = <<>> THEN reg
  ELSE TypedefLoop(GetFileInfo(reg, e.filename, TRUE), e.filename,
                   e.source.typedefs)

\* e.source = e.source.replace(typedefRegex, '')
StripTypedefs(src) == [src EXCEPT !.typedefs = <<>>]

RECURSIVE SimpleLoop(_, _, _)
SimpleLoop(reg, filename, matches) ==
  IF matches = <<>> THEN reg
  ELSE LET matched == Head(matches)
           file == withExt(Resolve(matched.path))
           exported == Slice(matched.exported, 1)
           localAlias == matched.alias
       IN SimpleLoop(SetAlias(reg, filename, localAlias, file, exported),
                     filename, Tail(matches))

constSimpleRequireAliases(reg, e) ==
  IF e.source.simples = <<>> THEN reg
  ELSE SimpleLoop(GetFileInfo(reg, e.filename, TRUE), e.filename,
                  e.source.simples)

\* const fullexport = exported ? exported + '.' + name : name
FullExport(exported, name) ==
  IF exported # <<>> THEN Dotted(exported, name) ELSE name

RECURSIVE NamesLoop(_, _, _, _, _)
NamesLoop(reg, filename, file, exported, exportedNames) ==
  IF exportedNames = <<>> THEN reg
  ELSE LET name == Head(exportedNames)
           fullexport == FullExport(exported, name)
           localAlias == name
       IN NamesLoop(SetAlias(reg, filename, localAlias, file, fullexport),
                    filename, file, exported, Tail(exportedNames))

RECURSIVE DestructLoop(_, _, _)
DestructLoop(reg, filename, matches) ==
  IF matches = <<>> THEN reg
  ELSE LET matched == Head(matches)
           file == withExt(Resolve(matched.path))
           exported == Slice(matched.exported, 1)
       IN DestructLoop(
            NamesLoop(reg, filename, file, exported, matched.names),
            filename, Tail(matches))

constDestructRequireAliases(reg, e) ==
  IF e.source.destructs = <<>> THEN reg
  ELSE DestructLoop(GetFileInfo(reg, e.filename, TRUE), e.filename,
                    e.source.destructs)

\* the registry after beforeParse(e)
beforeParse(reg, e) ==
  LET e2 == [e EXCEPT !.source = StripTypedefs(e.source)]
  IN constDestructRequireAliases(
       constSimpleRequireAliases(typedefImportAliases(reg, e), e2), e2)

(***************************************************************************)
(* newDoclet                                                               *)
(***************************************************************************)
IsDeclaration(kind) == kind = "class" \/ kind = "function"

\* the record's longnamesByDeclaration after indexLongnames(fileinfo, doclet)
indexLongnames(fileinfo, doclet) ==
  IF ~IsDeclaration(doclet.kind) THEN fileinfo
  ELSE IF doclet.name # doclet.longname
  THEN [fileinfo EXCEPT !.longnamesByDeclaration =
         MapSet(MapSet(@, doclet.code.name, doclet.longname),
                doclet.name, doclet.longname)]
  ELSE fileinfo

\* the record's mappings after indexMappings(fileinfo, doclet)
indexMappings(fileinfo, doclet) ==
  IF IsDeclaration(doclet.kind) THEN fileinfo
  ELSE IF doclet.code.type # "Identifier" THEN fileinfo
  ELSE [fileinfo EXCEPT !.mappings = OSet(@, doclet.code.name, doclet.code.value)]

\* the registry after newDoclet({doclet})
newDoclet(reg, doclet) ==
  IF doclet.scope # "global" /\ doclet.scope # "static" THEN reg
  ELSE LET got == GetFileInfo(reg, doclet.filename, TRUE)
           i == Lookup(got, doclet.filename)
       IN [got EXCEPT ![i] = indexMappings(indexLongnames(@, doclet), doclet)]

(***************************************************************************)
(* indexExports                                                            *)
(***************************************************************************)
ModuleExports == <<"module", Dot, "exports">>
Exports == <<"exports">>
Star == <<"*">>

\* lines 224-228: the key of the last mapping whose value is 'exports'
RECURSIVE AliasLoop(_, _)
AliasLoop(entries, exportsAlias) ==
  IF entries = <<>> THEN exportsAlias
  ELSE AliasLoop(Tail(entries),
                 IF Head(entries).value = Exports
                 THEN Head(entries).key ELSE exportsAlias)

\* A mutant of ExportsAlias: the module.exports value is not overridden.
ExportsAliasNoOverride(mappings) ==
  IF OIndex(mappings, ModuleExports) # 0
  THEN mappings[OIndex(mappings, ModuleExports)].value
  ELSE AliasLoop(mappings, Exports)

\* exportsAlias as the third loop uses it (lines 211-228)
ExportsAlias(mappings) ==
  AliasLoop(mappings,
            IF OIndex(mappings, ModuleExports) # 0
            THEN mappings[OIndex(mappings, ModuleExports)].value
            ELSE Exports)

\* A mutant of StarExport: '*' is set even when the value has no longname.
StarExportUnchecked(fileinfo) ==
  IF OIndex(fileinfo.mappings, ModuleExports) = 0 THEN fileinfo.exports
  ELSE LET moduleExports ==
             fileinfo.mappings[OIndex(fileinfo.mappings, ModuleExports)].value
       IN MapSet(fileinfo.exports, Star, moduleExports)

\* lines 214-222: the exports after the module.exports branch
StarExport(fileinfo) ==
  IF OIndex(fileinfo.mappings, ModuleExports) = 0 THEN fileinfo.exports
  ELSE LET moduleExports ==
             fileinfo.mappings[OIndex(fileinfo.mappings, ModuleExports)].value
       IN IF Has(fileinfo.longnamesByDeclaration, moduleExports)
          THEN MapSet(fileinfo.exports, Star,
                      fileinfo.longnamesByDeclaration[moduleExports])
          ELSE fileinfo.exports

\* A mutant of ExportKey: the alias is not stripped from the key.
ExportKeyWhole(key, exportsAlias) == key

\* key.slice(exportsAlias.length + 1)
ExportKey(key, exportsAlias) == Slice(key, Len(exportsAlias) + 1)

\* lines 230-243
RECURSIVE ExportLoop(_, _, _, _)
ExportLoop(entries, exportsAlias, longnames, exports) ==
  IF entries = <<>> THEN exports
  ELSE LET key == Head(entries).key
           value == Head(entries).value
           next ==
             IF StartsWith(key, exportsAlias \o <<Dot>>)
                /\ Has(longnames, value)
             THEN MapSet(exports, ExportKey(key, exportsAlias),
                         longnames[value])
             ELSE exports
       IN ExportLoop(Tail(entries), exportsAlias, longnames, next)

\* the record after indexExports(fileinfo)
indexExports(fileinfo) ==
  [fileinfo EXCEPT !.exports =
     ExportLoop(fileinfo.mappings, ExportsAlias(fileinfo.mappings),
                fileinfo.longnamesByDeclaration, StarExport(fileinfo))]

(***************************************************************************)
(* resolveImports                                                          *)
(***************************************************************************)
\* const importName = request[1] || '*'
ImportName(exported) == IF exported # <<>> THEN exported ELSE Star

\* A mutant of ResolveSlot: a failed lookup leaves the request in place.
ResolveSlotKeepsRequest(reg, request) ==
  LET importFrom == Lookup(reg, request.file)
  IN IF importFrom = 0 THEN request
     ELSE IF ~Has(reg[importFrom].exports, ImportName(request.exported))
     THEN request
     ELSE Resolved(reg[importFrom].exports[ImportName(request.exported)])

\* the value lines 258-273 store for one request
ResolveSlot(reg, request) ==
  LET importFrom == Lookup(GetFileInfo(reg, request.file, FALSE), request.file)
  IN IF importFrom = 0 THEN Null
     ELSE IF ~Has(reg[importFrom].exports, ImportName(request.exported))
     THEN Null
     ELSE Resolved(reg[importFrom].exports[ImportName(request.exported)])

\* the record after resolveImports(fileinfo), reading the registry reg
resolveImports(reg, fileinfo) ==
  LET importAliases == fileinfo.localImportAliases
  IN [fileinfo EXCEPT !.localImportAliases =
        [name \in DOMAIN importAliases |->
           ResolveSlot(reg, importAliases[name])]]

(***************************************************************************)
(* modifyDoclet                                                            *)
(***************************************************************************)
\* a token [\w\s,]+ can hold: an identifier or a comma
InRun(t) == t \notin {Dot, Open, Close, "*"}

\* the last index of the run of [\w\s,] tokens that starts at i
RECURSIVE RunEnd(_, _)
RunEnd(s, i) ==
  IF i < Len(s) /\ InRun(s[i + 1]) THEN RunEnd(s, i + 1) ELSE i

\* /([\w\s,]+)(?:.<(.*)>)?$/ matches with group 1 starting at i: the run is
\* taken whole, and then comes the end of the string, or ".<", anything, and
\* a ">" that ends the string.
MatchesAt(s, i) ==
  /\ InRun(s[i])
  /\ LET Rest(j) == \/ j = Len(s)
                    \/ /\ j + 1 < Len(s)
                       /\ s[j + 1] = Open
                       /\ s[Len(s)] = Close
     IN Rest(RunEnd(s, i))

\* name.match(typeMatch) finds something
HasMatch(s) == \E i \in 1..Len(s) : MatchesAt(s, i)

\* where the match starts: the leftmost place
MatchStart(s) ==
  CHOOSE i \in 1..Len(s) :
    MatchesAt(s, i) /\ \A k \in 1..(i - 1) : ~MatchesAt(s, k)

\* match[1]
MatchActual(s) ==
  LET Group(i) == SubSeq(s, i, RunEnd(s, i))
  IN Group(MatchStart(s))

\* match[2], <<>> when the group did not take part or is empty (both falsy)
MatchExtra(s) ==
  LET Group(j) == IF j = Len(s) THEN <<>> ELSE SubSeq(s, j + 2, Len(s) - 1)
  IN Group(RunEnd(s, MatchStart(s)))

\* match[1].split(',').map(t => t.trim())
RECURSIVE SplitComma(_, _, _)
SplitComma(run, done, current) ==
  IF run = <<>> THEN Append(done, current)
  ELSE IF Head(run) = Comma
  THEN SplitComma(Tail(run), Append(done, current), <<>>)
  ELSE SplitComma(Tail(run), done, Append(current, Head(run)))

\* what Array.prototype.join writes for one element: null is written empty,
\* an array (an unresolved request) as its elements joined by ","
Written(v) ==
  IF v.kind = "text" THEN v.text
  ELSE IF v.slot.kind = "longname" THEN v.slot.longname
  ELSE IF v.slot.kind = "null" THEN <<>>
  ELSE v.slot.file \o <<Comma>> \o v.slot.exported

Text(t) == [kind |-> "text", text |-> t, slot |-> Null]
SlotValue(slot) == [kind |-> "slot", text |-> <<>>, slot |-> slot]

\* lines 310-318: what one name of the list becomes
ReplaceName(fileinfo, t) ==
  IF Has(fileinfo.longnamesByDeclaration, t)
  THEN Text(fileinfo.longnamesByDeclaration[t])
  ELSE IF Has(fileinfo.localImportAliases, t)
  THEN SlotValue(fileinfo.localImportAliases[t])
  ELSE Text(t)

\* actual.join(', ')
RECURSIVE Join(_)
Join(values) ==
  IF values = <<>> THEN <<>>
  ELSE IF Len(values) = 1 THEN Written(values[1])
  ELSE Written(values[1]) \o <<Comma>> \o Join(Tail(values))

ReplaceNames(fileinfo, actual) ==
  Join([k \in 1..Len(actual) |-> ReplaceName(fileinfo, actual[k])])

\* replaceTypes(name) throws: no match here or in a generic argument
RECURSIVE Throws(_)
Throws(name) ==
  IF ~HasMatch(name) THEN TRUE
  ELSE LET Inner(extra) == IF extra = <<>> THEN FALSE ELSE Throws(extra)
       IN Inner(MatchExtra(name))

\* A mutant of Reattach: the generic argument is written back unbracketed.
ReattachFlat(actual, inner) == actual \o <<Dot>> \o inner

\* `${actual}.<${replaceTypes(extra)}>`
Reattach(actual, inner) == actual \o <<Open>> \o inner \o <<Close>>

\* what replaceTypes(name) returns when it does not throw
RECURSIVE replaceTypes(_, _)
replaceTypes(fileinfo, name) ==
  LET Result(actual, extra) ==
        IF extra = <<>> THEN actual
        ELSE Reattach(actual, replaceTypes(fileinfo, extra))
  IN Result(ReplaceNames(fileinfo, SplitComma(MatchActual(name), <<>>, <<>>)),
            MatchExtra(name))

\* a loop that has run out: nothing left to write, and whether the exception
\* is under way
Done(thrown) == [out |-> <<>>, thrown |-> thrown]

\* one element written, then the rest of the loop
Cons(first, rest) == [out |-> <<first>> \o rest.out, thrown |-> rest.thrown]

\* for (const [index, name] of names.entries()) names[index] =
\* replaceTypes(name), until one throws: what is left of the array, and
\* whether the exception is under way
RECURSIVE RewriteNames(_, _, _)
RewriteNames(fileinfo, names, thrown) ==
  IF names = <<>> THEN Done(thrown)
  ELSE IF thrown \/ Throws(Head(names))
  THEN Cons(Head(names), RewriteNames(fileinfo, Tail(names), TRUE))
  ELSE Cons(replaceTypes(fileinfo, Head(names)),
            RewriteNames(fileinfo, Tail(names), FALSE))

\* replaceAllTypes over the types of properties, params or returns; a type is
\* its names, and a missing type has none
RECURSIVE RewriteTypes(_, _, _)
RewriteTypes(fileinfo, types, thrown) ==
  IF types = <<>> THEN Done(thrown)
  ELSE LET Rest(first) ==
             Cons(first.out, RewriteTypes(fileinfo, Tail(types), first.thrown))
       IN Rest(RewriteNames(fileinfo, Head(types), thrown))

\* lines 339-343: doclet.augments, names themselves
RewriteAugments(fileinfo, r) ==
  LET Set(names) == [doclet |-> [r.doclet EXCEPT !.augments = names.out],
                     thrown |-> names.thrown]
  IN Set(RewriteNames(fileinfo, r.doclet.augments, r.thrown))

\* lines 345-349: the types of doclet.properties
RewriteProperties(fileinfo, r) ==
  LET Set(types) == [doclet |-> [r.doclet EXCEPT !.properties = types.out],
                     thrown |-> types.thrown]
  IN Set(RewriteTypes(fileinfo, r.doclet.properties, r.thrown))

\* lines 351-355: the types of doclet.params
RewriteParams(fileinfo, r) ==
  LET Set(types) == [doclet |-> [r.doclet EXCEPT !.params = types.out],
                     thrown |-> types.thrown]
  IN Set(RewriteTypes(fileinfo, r.doclet.params, r.thrown))

\* lines 357-361: the types of doclet.returns
RewriteReturns(fileinfo, r) ==
  LET Set(types) == [doclet |-> [r.doclet EXCEPT !.returns = types.out],
                     thrown |-> types.thrown]
  IN Set(RewriteTypes(fileinfo, r.doclet.returns, r.thrown))

\* the doclet after modifyDoclet(doclet), and whether it threw
modifyDoclet(reg, doclet, thrown) ==
  IF thrown \/ ~doclet.meta
     \/ Lookup(GetFileInfo(reg, doclet.filename, FALSE), doclet.filename) = 0
  THEN [doclet |-> doclet, thrown |-> thrown]
  ELSE LET Rewrite(fileinfo) ==
             RewriteReturns(fileinfo,
               RewriteParams(fileinfo,
                 RewriteProperties(fileinfo,
                   RewriteAugments(fileinfo,
                     [doclet |-> doclet, thrown |-> FALSE]))))
       IN Rewrite(reg[Lookup(reg, doclet.filename)])

(***************************************************************************)
(* processingComplete                                                      *)
(***************************************************************************)
\* for (const info of fileinfoByFile.values()) indexExports(info), from the
\* i-th record on
RECURSIVE IndexAll(_, _)
IndexAll(reg, i) ==
  IF i > Len(reg) THEN reg
  ELSE IndexAll([reg EXCEPT ![i] = indexExports(reg[i])], i + 1)

\* for (const info of fileinfoByFile.values()) resolveImports(info)
RECURSIVE ResolveAll(_, _)
ResolveAll(reg, i) ==
  IF i > Len(reg) THEN reg
  ELSE ResolveAll([reg EXCEPT ![i] = resolveImports(reg, reg[i])], i + 1)

\* A mutant of Resolution: each file is indexed and resolved in one pass.
RECURSIVE IndexAndResolveEach(_, _)
IndexAndResolveEach(reg, i) ==
  IF i > Len(reg) THEN reg
  ELSE LET indexed == [reg EXCEPT ![i] = indexExports(reg[i])]
       IN IndexAndResolveEach(
            [indexed EXCEPT ![i] = resolveImports(indexed, indexed[i])], i + 1)

ResolutionInOnePass(reg) == IndexAndResolveEach(reg, 1)

\* lines 373-380: the registry after the two loops
Resolution(reg) == ResolveAll(IndexAll(reg, 1), 1)

\* for (const doclet of doclets) modifyDoclet(doclet)
RECURSIVE ModifyAll(_, _, _)
ModifyAll(reg, ds, thrown) ==
  IF ds = <<>> THEN Done(thrown)
  ELSE LET Rest(first) ==
             Cons(first.doclet, ModifyAll(reg, Tail(ds), first.thrown))
       IN Rest(modifyDoclet(reg, Head(ds), thrown))

(***************************************************************************)
(* The inputs the host delivers                                            *)
(***************************************************************************)
MaxDoclets == 3

AFile == <<"a", ".js">>
BFile == <<"b", ".js">>
Files == {AFile, BFile}

Widget == <<"Widget">>
PkgWidget == <<"pkg", Dot, "Widget">>
Gone == <<"Gone">>
Tool == <<"Tool">>

NoMatches == [typedefs |-> <<>>, simples |-> <<>>, destructs |-> <<>>]

\* /** @typedef {import('./c').Thing} Gone */
\* const {Widget} = require('./a');
DestructSource ==
  [typedefs |-> <<[path |-> <<"./", "c">>, exported |-> <<Dot, "Thing">>,
                   alias |-> Gone]>>,
   simples |-> <<>>,
   destructs |-> <<[names |-> <<Widget>>, path |-> <<"./", "a">>,
                    exported |-> <<>>]>>]

\* const Widget = require('./a');
\* const Tool = require('./b.js').Widget;
SimpleSource ==
  [typedefs |-> <<>>,
   simples |-> <<[alias |-> Widget, path |-> <<"./", "a">>,
                  exported |-> <<>>],
                 [alias |-> Tool, path |-> <<"./", "b", ".js">>,
                  exported |-> <<Dot, "Widget">>]>>,
   destructs |-> <<>>]

Sources == {NoMatches, DestructSource, SimpleSource}

NoCode == [type |-> "None", name |-> <<>>, value |-> <<>>]

Doclet(filename, kind, name, longname, scope, code) ==
  [meta |-> TRUE, filename |-> filename, kind |-> kind, name |-> name,
   longname |-> longname, scope |-> scope, code |-> code,
   augments |-> <<>>, properties |-> <<>>, params |-> <<>>, returns |-> <<>>]

\* function Widget() {}, documented as pkg.Widget
WidgetDoclet(f) ==
  Doclet(f, "function", Widget, PkgWidget, "global",
         [type |-> "FunctionDeclaration", name |-> Widget, value |-> <<>>])

\* module.exports = Widget;
ModuleExportsDoclet(f) ==
  Doclet(f, "member", Exports, ModuleExports, "static",
         [type |-> "Identifier", name |-> ModuleExports, value |-> Widget])

\* exports.Widget = Widget;
ExportsWidgetDoclet(f) ==
  Doclet(f, "member", Widget, Dotted(Exports, Widget), "static",
         [type |-> "Identifier", name |-> Dotted(Exports, Widget),
          value |-> Widget])

\* an inner class: /** @extends Widget @property {Gone} g
\* @param {Widget} w @returns {Array.<Tool>} */
UseDoclet(f) ==
  [Doclet(f, "class", <<"Use">>, <<"outer", "~", "Use">>, "inner",
          [type |-> "ClassDeclaration", name |-> <<"Use">>, value |-> <<>>])
   EXCEPT !.augments = <<Widget>>,
          !.properties = << <<Gone>> >>,
          !.params = << <<Widget>> >>,
          !.returns = << << <<"Array", Open, "Tool", Close>> >> >>]

DocletsOf(f) ==
  {WidgetDoclet(f), ModuleExportsDoclet(f), ExportsWidgetDoclet(f),
   UseDoclet(f)}

\* the doclet the host adds for the package: it has no meta
PackageDoclet ==
  [Doclet(<<>>, "package", <<"package">>, <<"package">>, "global", NoCode)
   EXCEPT !.meta = FALSE]

NoEvent == [filename |-> <<>>, source |-> NoMatches]

(***************************************************************************)
(* The handlers.  The host parses one file after the other: beforeParse    *)
(* for a file, the newDoclet events of that file, then the next file, and  *)
(* processingComplete once at the end.                                     *)
(***************************************************************************)
Init ==
  /\ fileinfoByFile = <<>>
  /\ doclets = <<>>
  /\ source = NoEvent
  /\ parsed = {}
  /\ phase = "parsing"
  /\ before = <<>>
  /\ rewritten = <<>>

BeforeParse ==
  /\ phase = "parsing"
  /\ \E f \in Files \ parsed : \E src \in Sources :
       LET e == [filename |-> f, source |-> src]
       IN /\ fileinfoByFile' = beforeParse(fileinfoByFile, e)
          /\ source' = [e EXCEPT !.source = StripTypedefs(src)]
          /\ parsed' = parsed \cup {f}
  /\ UNCHANGED <<doclets, phase, before, rewritten>>

NewDoclet ==
  /\ phase = "parsing"
  /\ source.filename \in Files
  /\ Len(doclets) < MaxDoclets
  /\ \E doclet \in DocletsOf(source.filename) :
       /\ fileinfoByFile' = newDoclet(fileinfoByFile, doclet)
       /\ doclets' = Append(doclets, doclet)
  /\ UNCHANGED <<source, parsed, phase, before, rewritten>>

ProcessingComplete ==
  /\ phase = "parsing"
  /\ \E package \in BOOLEAN :
       LET all == IF package THEN Append(doclets, PackageDoclet) ELSE doclets
           Complete(resolved, modified) ==
             /\ doclets' = all
             /\ before' = fileinfoByFile
             /\ fileinfoByFile' = resolved
             /\ rewritten' = modified.out
             /\ phase' = IF modified.thrown THEN "error" ELSE "complete"
           Modify(resolved) ==
             Complete(resolved, ModifyAll(resolved, all, FALSE))
       IN Modify(Resolution(fileinfoByFile))
  /\ UNCHANGED <<source, parsed>>

Next == BeforeParse \/ NewDoclet \/ ProcessingComplete

Spec == Init /\ [][Next]_vars

(***************************************************************************)
(* indexExports on its own: the registry holds one file whose doclets      *)
(* have recorded any of the assignments below, in any order, and the host  *)
(* signals processingComplete.                                             *)
(***************************************************************************)
MaxMappings == 3

X == <<"X">>
Foo == <<"Foo">>
Nope == <<"Nope">>
PkgX == <<"pkg", Dot, "X">>
PkgFoo == <<"pkg", Dot, "Foo">>

Assign(key, value) == [key |-> key, value |-> value]

\* module.exports = X | exports | Nope;  e = exports | X;  f = exports;
\* e.Foo = Foo | Nope;  f.Foo = X;  X.Foo = Foo;  X.Bar.Baz = X;
\* exports.Foo = Foo;  module.exports.Foo = Foo
Assignments ==
  {Assign(ModuleExports, X), Assign(ModuleExports, Exports),
   Assign(ModuleExports, Nope),
   Assign(<<"e">>, Exports), Assign(<<"e">>, X),
   Assign(<<"f">>, Exports),
   Assign(<<"e", Dot, "Foo">>, Foo), Assign(<<"e", Dot, "Foo">>, Nope),
   Assign(<<"f", Dot, "Foo">>, X),
   Assign(<<"X", Dot, "Foo">>, Foo),
   Assign(<<"X", Dot, "Bar", Dot, "Baz">>, X),
   Assign(<<"exports", Dot, "Foo">>, Foo),
   Assign(ModuleExports \o <<Dot, "Foo">>, Foo)}

\* the mappings a file can hold: no key twice
MappingsUpTo(n) ==
  {m \in UNION {[1..k -> Assignments] : k \in 0..n} :
     \A i, j \in 1..Len(m) : m[i].key = m[j].key => i = j}

\* function X() {} and function Foo() {}, documented as pkg.X and pkg.Foo
ExportLongnames == MapSet(MapSet(EmptyMap, X, PkgX), Foo, PkgFoo)

InitExports ==
  /\ fileinfoByFile \in
       {<<[FileInfo(AFile) EXCEPT !.mappings = m,
                                  !.longnamesByDeclaration = ExportLongnames]>> :
          m \in MappingsUpTo(MaxMappings)}
  /\ doclets = <<>>
  /\ source = [filename |-> AFile, source |-> NoMatches]
  /\ parsed = {AFile}
  /\ phase = "parsing"
  /\ before = <<>>
  /\ rewritten = <<>>

SpecExports == InitExports /\ [][ProcessingComplete]_vars

(***************************************************************************)
(* replaceTypes on its own: file a.js exports Foo and Both, file b.js      *)
(* imports them and Gone (from a file that was never parsed), declares Bar *)
(* and Both itself, and holds one doclet with one type name.               *)
(***************************************************************************)
MaxDepth == 2

Bar == <<"Bar">>
Both == <<"Both">>
ArrayName == <<"Array">>
PkgBoth == <<"pkg", Dot, "Both">>
LibBar == <<"lib", Dot, "Bar">>
LibBoth == <<"lib", Dot, "Both">>
PkgThing == <<"pkg", Dot, "Thing">>

\* the lists of names a type expression is built from
NameLists ==
  {Foo, Bar, Both, Gone, ArrayName, PkgThing,
   ArrayName \o <<Comma>> \o Foo, Gone \o <<Comma>> \o Bar}

\* names, or names.<expression>, nested to depth d
RECURSIVE Generic(_)
Generic(d) ==
  IF d = 0 THEN NameLists
  ELSE NameLists \cup
       {l \o <<Open>> \o g \o <<Close>> : l \in NameLists, g \in Generic(d - 1)}

\* *, Array.<>, Object.<Array.<Foo>, Bar>, Foo. and the empty string
Irregular ==
  {<<"*">>,
   <<"Array", Open, Close>>,
   <<"Object", Open, "Array", Open, "Foo", Close, Comma, "Bar", Close>>,
   <<"Foo", Dot>>,
   <<"Array", Open, "*", Close>>,
   <<>>}

TypeNames == Generic(MaxDepth) \cup Irregular

TypeDoclet(name) ==
  [Doclet(BFile, "function", <<"use">>, <<"use">>, "global",
          [type |-> "FunctionDeclaration", name |-> <<"use">>, value |-> <<>>])
   EXCEPT !.params = << <<name>> >>]

TypesRegistry ==
  <<[FileInfo(AFile) EXCEPT
       !.longnamesByDeclaration = MapSet(MapSet(EmptyMap, Foo, PkgFoo), Both, PkgBoth),
       !.mappings = <<Assign(Dotted(Exports, Foo), Foo),
                      Assign(Dotted(Exports, Both), Both)>>],
    [FileInfo(BFile) EXCEPT
       !.longnamesByDeclaration = MapSet(MapSet(EmptyMap, Bar, LibBar), Both, LibBoth),
       !.localImportAliases =
          MapSet(MapSet(MapSet(EmptyMap,
            Foo, Request(AFile, Foo)),
            Both, Request(AFile, Both)),
            Gone, Request(<<"c", ".js">>, <<"Thing">>))]>>

InitTypes ==
  /\ fileinfoByFile = TypesRegistry
  /\ doclets \in {<<TypeDoclet(name)>> : name \in TypeNames}
  /\ source = [filename |-> BFile, source |-> NoMatches]
  /\ parsed = {AFile, BFile}
  /\ phase = "parsing"
  /\ before = <<>>
  /\ rewritten = <<>>

SpecTypes == InitTypes /\ [][ProcessingComplete]_vars

(***************************************************************************)
(* What the claims speak of                                                *)
(***************************************************************************)
RECURSIVE Concat(_)
Concat(ss) == IF ss = <<>> THEN <<>> ELSE Head(ss) \o Concat(Tail(ss))

\* every type name of a doclet, in the order modifyDoclet visits them
TypeNamesOf(doclet) ==
  doclet.augments \o Concat(doclet.properties) \o Concat(doclet.params)
    \o Concat(doclet.returns)

\* the doclets modifyDoclet rewrites: those with meta whose file has a record
Rewritable == {i \in 1..Len(doclets) :
                 doclets[i].meta /\ Lookup(fileinfoByFile, doclets[i].filename) # 0}

Owner(i) == fileinfoByFile[Lookup(fileinfoByFile, doclets[i].filename)]

Places(i) == 1..Len(TypeNamesOf(doclets[i]))
Written0(i, j) == TypeNamesOf(doclets[i])[j]
Rewritten(i, j) == TypeNamesOf(rewritten[i])[j]

\* the files of the registry, by place
Held(reg) == 1..Len(reg)

(***************************************************************************)
(* C1 as stated: file A declares Widget as pkg.Widget and records          *)
(* module.exports = Widget, file B binds Widget by const {Widget} =        *)
(* require('./a') and has a parameter typed Widget; after                  *)
(* processingComplete that parameter's type name reads pkg.Widget.         *)
(***************************************************************************)
DeclaresWidget(reg, f) ==
  /\ Lookup(reg, f) # 0
  /\ Has(reg[Lookup(reg, f)].longnamesByDeclaration, Widget)
  /\ reg[Lookup(reg, f)].longnamesByDeclaration[Widget] = PkgWidget

Records(reg, f, key, value) ==
  /\ Lookup(reg, f) # 0
  /\ \E k \in 1..Len(reg[Lookup(reg, f)].mappings) :
       reg[Lookup(reg, f)].mappings[k] = Assign(key, value)

\* const {Widget} = require('./a') in file f: the request it leaves
DestructuresWidget(reg, f) ==
  /\ Lookup(reg, f) # 0
  /\ Has(reg[Lookup(reg, f)].localImportAliases, Widget)
  /\ reg[Lookup(reg, f)].localImportAliases[Widget] = Request(AFile, Widget)

C1_DestructuredModuleExports ==
  (/\ phase = "complete"
   /\ DeclaresWidget(before, AFile)
   /\ Records(before, AFile, ModuleExports, Widget)
   /\ DestructuresWidget(before, BFile))
  => \A i \in 1..Len(doclets) :
       (doclets[i].meta /\ doclets[i].filename = BFile)
       => \A j \in 1..Len(Concat(doclets[i].params)) :
            Concat(doclets[i].params)[j] = Widget
            => Concat(rewritten[i].params)[j] = PkgWidget

\* file f records no module.exports assignment and never re-binds exports
ExportsByProperty(reg, f) ==
  /\ Lookup(reg, f) # 0
  /\ \A k \in 1..Len(reg[Lookup(reg, f)].mappings) :
       /\ reg[Lookup(reg, f)].mappings[k].key # ModuleExports
       /\ reg[Lookup(reg, f)].mappings[k].value # Exports

DeclaresNoWidget(reg, f) ==
  Lookup(reg, f) # 0 => ~Has(reg[Lookup(reg, f)].longnamesByDeclaration, Widget)

C1_Scenario ==
  /\ phase = "complete"
  /\ DeclaresWidget(before, AFile)
  /\ Records(before, AFile, Dotted(Exports, Widget), Widget)
  /\ ExportsByProperty(before, AFile)
  /\ DestructuresWidget(before, BFile)
  /\ DeclaresNoWidget(before, BFile)

(***************************************************************************)
(* C1 as amended: file A declares Widget as pkg.Widget and records         *)
(* exports.Widget = Widget (no module.exports assignment, exports not      *)
(* re-bound), file B binds Widget by const {Widget} = require('./a'),      *)
(* declares no Widget of its own and has a parameter typed Widget; after   *)
(* processingComplete that parameter's type name reads pkg.Widget.         *)
(***************************************************************************)
C1_DestructuredExportsProperty ==
  C1_Scenario
  => \A i \in 1..Len(doclets) :
       (doclets[i].meta /\ doclets[i].filename = BFile)
       => \A j \in 1..Len(Concat(doclets[i].params)) :
            Concat(doclets[i].params)[j] = Widget
            => Concat(rewritten[i].params)[j] = PkgWidget

C1_Witness ==
  /\ C1_Scenario
  /\ \E i \in 1..Len(doclets) :
       /\ doclets[i].meta /\ doclets[i].filename = BFile
       /\ \E j \in 1..Len(Concat(doclets[i].params)) :
            /\ Concat(doclets[i].params)[j] = Widget
            /\ Concat(rewritten[i].params)[j] = PkgWidget

\* the name written at place j of doclet i is an alias of the owning file
\* that resolution left null, and no declared name of that file
FailedAliasAt(i, j) ==
  /\ Has(Owner(i).localImportAliases, Written0(i, j))
  /\ Owner(i).localImportAliases[Written0(i, j)] = Null
  /\ ~Has(Owner(i).longnamesByDeclaration, Written0(i, j))

(***************************************************************************)
(* C2: an alias that ended up null (its target file is not in the          *)
(* registry, or the exported path is not in the target's export table) is  *)
(* not substituted: after processingComplete every type name of the owning *)
(* file's doclets (augments, properties, params, returns) that is that     *)
(* alias's local name is the string it was before.                         *)
(***************************************************************************)
C2_FailedAliasLeftAsWritten ==
  phase = "complete"
  => \A i \in Rewritable : \A j \in Places(i) :
       FailedAliasAt(i, j) => Rewritten(i, j) = Written0(i, j)

\* file f has recorded no assignment at all
RecordsNothing(reg, a) == reg[a].mappings = <<>>

\* the aliases of the registry whose request names the file at place a
ImportsFrom(reg, a) ==
  {<<b, name>> \in UNION {{<<b, n>> : n \in DOMAIN reg[b].localImportAliases} :
                            b \in Held(reg)} :
     reg[b].localImportAliases[name].file = reg[a].filename}

(***************************************************************************)
(* C5: if file A records no module.exports assignment (here: no assignment *)
(* at all), then after processingComplete A's export table is empty, every *)
(* alias whose target file is A is null, and the type names that use those *)
(* aliases are left as originally written.                                 *)
(***************************************************************************)
C5_NoExportsLeavesNames ==
  phase = "complete"
  => \A a \in Held(before) :
       RecordsNothing(before, a)
       => /\ fileinfoByFile[a].exports = EmptyMap
          /\ \A bn \in ImportsFrom(before, a) :
               /\ fileinfoByFile[bn[1]].localImportAliases[bn[2]] = Null
               /\ \A i \in Rewritable : \A j \in Places(i) :
                    (/\ doclets[i].filename = before[bn[1]].filename
                     /\ Written0(i, j) = bn[2]
                     /\ ~Has(Owner(i).longnamesByDeclaration, bn[2]))
                    => Rewritten(i, j) = Written0(i, j)

\* what resolution leaves per file: its export table and its aliases
Outcome(reg) ==
  [f \in {reg[i].filename : i \in Held(reg)} |->
     [exportTable |-> reg[Lookup(reg, f)].exports,
      localAliases |-> reg[Lookup(reg, f)].localImportAliases]]

\* the registry with its records inserted in the order p
Reordered(reg, p) == [i \in Held(reg) |-> reg[p[i]]]

(***************************************************************************)
(* C4: for fixed files (alias requests, declared names, assignments),      *)
(* every order of insertion into the registry, and so every order in which *)
(* processingComplete visits the files, gives the same export table for    *)
(* each file and the same final value for each alias.                      *)
(***************************************************************************)
C4_OrderIndependent ==
  phase # "parsing"
  => \A p \in Permutations(Held(before)) :
       Outcome(Resolution(Reordered(before, p))) = Outcome(fileinfoByFile)

\* the first file visited imports from the second, and the import resolved
C4_Witness ==
  /\ phase = "complete"
  /\ Len(before) = 2
  /\ \E name \in DOMAIN before[1].localImportAliases :
       /\ before[1].localImportAliases[name].file = before[2].filename
       /\ fileinfoByFile[1].localImportAliases[name].kind = "longname"

\* the record of file f as the doclets delivered so far build it, from the
\* k-th doclet on
RECURSIVE Indexed(_, _, _)
Indexed(fileinfo, ds, k) ==
  IF k > Len(ds) THEN fileinfo
  ELSE Indexed(
         IF ds[k].meta /\ ds[k].filename = fileinfo.filename
            /\ ds[k].scope \in {"global", "static"}
         THEN indexMappings(indexLongnames(fileinfo, ds[k]), ds[k])
         ELSE fileinfo,
         ds, k + 1)

\* the export table the rules of indexExports give for all of f's doclets
TableOfAllDoclets(f) == indexExports(Indexed(FileInfo(f), doclets, 1)).exports

(***************************************************************************)
(* C6: before processingComplete every export table is empty and every     *)
(* alias slot is a request (targetFile, exportedPath); after it every      *)
(* alias slot is a canonical name or null, never a request, and every      *)
(* export table is the one derived from all the assignments and declared   *)
(* names of its file.                                                      *)
(***************************************************************************)
C6_ResolutionBarrier ==
  \A i \in Held(fileinfoByFile) :
    LET fileinfo == fileinfoByFile[i]
    IN /\ phase = "parsing"
          => /\ fileinfo.exports = EmptyMap
             /\ \A name \in DOMAIN fileinfo.localImportAliases :
                  fileinfo.localImportAliases[name].kind = "request"
       /\ phase # "parsing"
          => /\ \A name \in DOMAIN fileinfo.localImportAliases :
                  fileinfo.localImportAliases[name].kind \in {"longname", "null"}
             /\ fileinfo.exports = TableOfAllDoclets(fileinfo.filename)

\* after the barrier: a resolved alias, a failed one, a non-empty table
C6_Witness ==
  /\ phase = "complete"
  /\ \E i, k \in Held(fileinfoByFile) :
       /\ fileinfoByFile[k].exports # EmptyMap
       /\ \E n, m \in DOMAIN fileinfoByFile[i].localImportAliases :
            /\ fileinfoByFile[i].localImportAliases[n].kind = "longname"
            /\ fileinfoByFile[i].localImportAliases[m].kind = "null"

\* nothing a record held is lost
Intact(old, new) ==
  /\ new.filename = old.filename
  /\ DOMAIN old.localImportAliases \subseteq DOMAIN new.localImportAliases
  /\ DOMAIN old.longnamesByDeclaration \subseteq DOMAIN new.longnamesByDeclaration
  /\ \A k \in 1..Len(old.mappings) :
       k <= Len(new.mappings) /\ new.mappings[k].key = old.mappings[k].key

OnePerPath(reg) ==
  \A i, j \in Held(reg) : reg[i].filename = reg[j].filename => i = j

(***************************************************************************)
(* C8: over every beforeParse, newDoclet and processingComplete the        *)
(* registry holds at most one FileInfo per path; asking for a path that    *)
(* has a record gives that record with its contents intact; and the plain  *)
(* lookups of processingComplete (resolveImports, modifyDoclet) add no     *)
(* record.                                                                 *)
(***************************************************************************)
C8_RegistryIdempotent ==
  [][/\ OnePerPath(fileinfoByFile')
     /\ \A i \in Held(fileinfoByFile) :
          /\ i <= Len(fileinfoByFile')
          /\ Intact(fileinfoByFile[i], fileinfoByFile'[i])
     /\ Len(fileinfoByFile') <= Len(fileinfoByFile) + 1
     /\ phase' # "parsing" => Len(fileinfoByFile') = Len(fileinfoByFile)]_vars

\* a record that beforeParse created and newDoclet asked for again, and a
\* processingComplete that looked up a path without a record
C8_Witness ==
  /\ phase = "complete"
  /\ \E i \in Held(fileinfoByFile) :
       /\ DOMAIN fileinfoByFile[i].localImportAliases # {}
       /\ fileinfoByFile[i].mappings # <<>>
       /\ \E n \in DOMAIN before[i].localImportAliases :
            Lookup(before, before[i].localImportAliases[n].file) = 0

\* the places of the assignments whose value is literally "exports"
Rebinds(m) == {k \in 1..Len(m) : m[k].value = Exports}

\* the key of the last of them
LastRebind(m) ==
  m[CHOOSE k \in Rebinds(m) : \A l \in Rebinds(m) : l <= k].key

\* the value of the module.exports assignment
ModuleValue(m) ==
  m[CHOOSE k \in 1..Len(m) : m[k].key = ModuleExports].value

AssignsModule(m) == \E k \in 1..Len(m) : m[k].key = ModuleExports

\* the assignments that attach a declared value to a property path of alias
Attached(fileinfo, alias) ==
  {k \in 1..Len(fileinfo.mappings) :
     /\ StartsWith(fileinfo.mappings[k].key, alias \o <<Dot>>)
     /\ Has(fileinfo.longnamesByDeclaration, fileinfo.mappings[k].value)}

\* the dotted path of assignment k after the alias and its dot
PathAfter(fileinfo, alias, k) ==
  SubSeq(fileinfo.mappings[k].key, Len(alias) + 2,
         Len(fileinfo.mappings[k].key))

(***************************************************************************)
(* C3: for a file that records module.exports = X and property assignments *)
(* on the re-bound alias (X itself, or the name exports was last re-bound  *)
(* to), indexExports maps every attached property path p whose value V is  *)
(* a declared name to the canonical name of V, and "*" to the canonical    *)
(* name of X whenever X is a declared name.                                *)
(***************************************************************************)
C3_ExportPrecedence ==
  phase # "parsing"
  => \A i \in Held(fileinfoByFile) :
       LET fileinfo == fileinfoByFile[i]
           m == fileinfo.mappings
           declared == fileinfo.longnamesByDeclaration
           alias == IF Rebinds(m) # {} THEN LastRebind(m) ELSE ModuleValue(m)
       IN AssignsModule(m)
          => /\ Has(declared, ModuleValue(m))
                => /\ Has(fileinfo.exports, Star)
                   /\ fileinfo.exports[Star] = declared[ModuleValue(m)]
             /\ \A k \in Attached(fileinfo, alias) :
                  /\ Has(fileinfo.exports, PathAfter(fileinfo, alias, k))
                  /\ fileinfo.exports[PathAfter(fileinfo, alias, k)]
                       = declared[m[k].value]

\* module.exports = X; X.Foo = Foo; X.Bar.Baz = X, indexed
C3_Witness ==
  /\ phase = "complete"
  /\ \E i \in Held(fileinfoByFile) :
       /\ fileinfoByFile[i].mappings =
            <<Assign(ModuleExports, X), Assign(<<"X", Dot, "Foo">>, Foo),
              Assign(<<"X", Dot, "Bar", Dot, "Baz">>, X)>>
       /\ fileinfoByFile[i].exports[Star] = PkgX
       /\ fileinfoByFile[i].exports[Foo] = PkgFoo
       /\ fileinfoByFile[i].exports[<<"Bar", Dot, "Baz">>] = PkgX

\* the active export alias as the claim gives it
ActiveAlias(m) ==
  IF Rebinds(m) # {} THEN LastRebind(m)
  ELSE IF AssignsModule(m) THEN ModuleValue(m)
  ELSE Exports

(***************************************************************************)
(* C9: the active export alias is the key of the last assignment whose     *)
(* value is literally "exports", before the module.exports value and the   *)
(* default "exports"; the export table has an entry other than "*" exactly *)
(* for the assignments whose key is the active alias, a dot and a suffix   *)
(* and whose value is a declared name: suffix -> canonical name of the     *)
(* value.  Assignments of an undeclared value are skipped.                 *)
(***************************************************************************)
C9_ActiveAlias ==
  phase # "parsing"
  => \A i \in Held(fileinfoByFile) :
       LET fileinfo == fileinfoByFile[i]
           alias == ActiveAlias(fileinfo.mappings)
           attached == Attached(fileinfo, alias)
       IN /\ DOMAIN fileinfo.exports \ {Star}
               = {PathAfter(fileinfo, alias, k) : k \in attached}
          /\ \A k \in attached :
               fileinfo.exports[PathAfter(fileinfo, alias, k)]
                 = fileinfo.longnamesByDeclaration[fileinfo.mappings[k].value]

\* e = exports; f = exports; f.Foo = X, indexed: the last re-binding, f, is
\* the active alias
C9_Witness ==
  /\ phase = "complete"
  /\ \E i \in Held(fileinfoByFile) :
       /\ fileinfoByFile[i].mappings =
            <<Assign(<<"e">>, Exports), Assign(<<"f">>, Exports),
              Assign(<<"f", Dot, "Foo">>, X)>>
       /\ fileinfoByFile[i].exports = MapSet(EmptyMap, Foo, PkgX)

\* the .< and > of a type expression, in order
RECURSIVE Brackets(_)
Brackets(name) ==
  IF name = <<>> THEN <<>>
  ELSE IF Head(name) \in {Open, Close}
  THEN <<Head(name)>> \o Brackets(Tail(name))
  ELSE Brackets(Tail(name))

HasOpen(name) == \E k \in 1..Len(name) : name[k] = Open
FirstOpen(name) ==
  CHOOSE k \in 1..Len(name) : name[k] = Open /\ \A l \in 1..(k - 1) : name[l] # Open

\* names, or names.<expression>, to any depth
RECURSIVE NestedGeneric(_)
NestedGeneric(name) ==
  IF ~HasOpen(name) THEN name \in NameLists
  ELSE /\ SubSeq(name, 1, FirstOpen(name) - 1) \in NameLists
       /\ name[Len(name)] = Close
       /\ NestedGeneric(SubSeq(name, FirstOpen(name) + 1, Len(name) - 1))

(***************************************************************************)
(* C7: rewriting a type expression of the form Outer.<...>, nested to any  *)
(* depth, does not throw and leaves the number and order of the .< and >   *)
(* delimiters as they were; Array.<Array.<Foo>>, with Foo resolving to     *)
(* pkg.Foo, becomes Array.<Array.<pkg.Foo>>.                               *)
(***************************************************************************)
C7_GenericNesting ==
  phase # "parsing"
  => \A i \in Rewritable : \A j \in Places(i) :
       NestedGeneric(Written0(i, j))
       => /\ phase = "complete"
          /\ Brackets(Rewritten(i, j)) = Brackets(Written0(i, j))
          /\ Written0(i, j) = <<"Array", Open, "Array", Open, "Foo", Close, Close>>
             => Rewritten(i, j) =
                  <<"Array", Open, "Array", Open>> \o PkgFoo \o <<Close, Close>>

C7_Witness ==
  /\ phase = "complete"
  /\ \E i \in Rewritable : \E j \in Places(i) :
       /\ Written0(i, j) = <<"Array", Open, "Array", Open, "Foo", Close, Close>>
       /\ Rewritten(i, j) =
            <<"Array", Open, "Array", Open>> \o PkgFoo \o <<Close, Close>>

\* a bare name or a dotted one: identifiers with dots between them
IsName(name) ==
  /\ Len(name) % 2 = 1
  /\ \A k \in 1..Len(name) :
       IF k % 2 = 1 THEN name[k] \notin {Dot, Open, Close, Comma, "*"}
       ELSE name[k] = Dot

\* what the claim has a name become in the file fileinfo
Canonical(fileinfo, name) ==
  IF Has(fileinfo.longnamesByDeclaration, name)
  THEN fileinfo.longnamesByDeclaration[name]
  ELSE IF Has(fileinfo.localImportAliases, name)
          /\ fileinfo.localImportAliases[name].kind = "longname"
  THEN fileinfo.localImportAliases[name].longname
  ELSE name

(***************************************************************************)
(* C10: a name of a type expression becomes the owning file's declared     *)
(* canonical name if it is a declared name (before an alias of the same    *)
(* name), else the alias's canonical name if it is a resolved alias, else  *)
(* it stays as it is, names that are already canonical dotted names such   *)
(* as pkg.Thing included.  (Names that are failed aliases are C2's.)       *)
(***************************************************************************)
C10_NamesSubstituted ==
  phase = "complete"
  => \A i \in Rewritable : \A j \in Places(i) :
       (IsName(Written0(i, j)) /\ ~FailedAliasAt(i, j))
       => Rewritten(i, j) = Canonical(Owner(i), Written0(i, j))

====
